---- MODULE Spec2Model ----
(***************************************************************************)
(* Cooperative tick-driven scheduler of sgermino/Ejer5/src/copos.c:        *)
(* the task table, the tick ISR (schedulerUpdate), the main-loop           *)
(* dispatcher (schedulerDispatchTasks) and the registry calls              *)
(* (schedulerAddTask, schedulerModifyTaskPeriod, schedulerDeleteTask,      *)
(* schedulerInit).                                                         *)
(*                                                                         *)
(* copos.h is not part of the sources at hand.  From it the model needs    *)
(* the field types of sTask_t and the value of SCHEDULER_MAX_TASKS.  The   *)
(* fields delay, period and runMe are taken as unsigned machine words, as  *)
(* the specification states and as the uint32_t parameters of              *)
(* schedulerAddTask suggest.  The word is scaled down from 2^32 to         *)
(* WordModulus values so that wrap-around stays within reach.              *)
(*                                                                         *)
(* Specifications:                                                         *)
(*   Spec         every call runs to its end before the next step          *)
(*   SpecTimed    the same, with the history of the calls of the tasks     *)
(*   SpecLive     the running program: the main loop and the tick are fair *)
(*   SpecCallable the tasks make registry calls while they run             *)
(*   SpecIsr      the tick interrupts the main context between two of its  *)
(*                memory accesses                                          *)
(*   SpecReport   the build with SCH_REPORT_ERRORS: every pass ends with   *)
(*                schedulerReportStatus                                    *)
(***************************************************************************)
EXTENDS Integers, Sequences, FiniteSets, TLC

\* ------------------------------------------------------------- configuration
\* Number of slots of the table (set in copos.h; the array is declared at copos.c:49).
SCHEDULER_MAX_TASKS == 2

\* ------------------------------------------------------------- bounds
\* Number of values of an unsigned word (2^32 on the target, scaled down).
WordModulus == 4
\* Largest delay / period argument handed to the registry.
MaxArg == 2
\* Ticks are not taken while some slot already has this many pending runs.
MaxRunMe == 2
\* Most registry calls a task makes in one run.
MaxCalls == 2
\* Most ticks that arrive while one registry call is under way.
MaxTicksInCall == 1
\* Calls of schedulerReportStatus for which an error stays displayed (60000 in the
\* code, scaled down).
ReportTicks == 2

\* ------------------------------------------------------------- constants
NULL == 0
RETURN_NORMAL == 0
RETURN_ERROR == -1
ERROR_TOO_MANY_TASKS == 2
ERROR_CANNOT_DELETE_TASK == 2

Slots == 0 .. (SCHEDULER_MAX_TASKS - 1)
\* Task functions the callers register: NULL or the address of a function.
Functions == {NULL, 1}
\* Context pointers the callers register (a slot that was zeroed holds NULL).
Contexts == {1}
Args == 0 .. MaxArg
\* Indices the callers pass: every slot and one index past the table.
Indices == 0 .. SCHEDULER_MAX_TASKS

\* sTask_t
Task(f, c, d, p, r) == [pTask |-> f, context |-> c, delay |-> d, period |-> p, runMe |-> r]
\* memset (&schedulerTasks[taskIndex], 0, sizeof(sTask_t))
ZeroTask == Task(NULL, NULL, 0, 0, 0)

VARIABLES
    schedulerTasks, \* the array of tasks
    errorCode,      \* the global error variable
    ret,            \* (observation, recorded in Spec) [fn, arg, val, pend, task, ran]:
                    \* the function the last step ran, the taskIndex it was given
                    \* (delete, modify) or the slot it visited (dispatch), the value it
                    \* returned (dispatch: 1 if the task of the slot was called), the
                    \* runMe that was pending before it (delete: in the slot, init:
                    \* the largest of the table), the task it was asked to register
                    \* (an add that found a slot) and the slots whose task the
                    \* dispatch pass under way has called so far, in order
    di,             \* main context: 0 = between calls, 0 < di < MAX = inside the dispatch
                    \* loop before slot di, MAX = loop done, parked in __WFI
    hist,           \* (observation, recorded in SpecTimed) per slot, the history of
                    \* the task registered there
    mc,             \* main context, where its steps are followed one by one
                    \* (SpecCallable, SpecIsr): [pc, n, i, tmp, task]: the position in
                    \* the code, the registry calls the running task has made (or 1
                    \* while the dispatch loop is the caller of schedulerDeleteTask),
                    \* the index and the register a call works with, the arguments
                    \* of the schedulerAddTask under way
    obs,            \* (observation, recorded in SpecIsr) [owed, snap, k]: per slot the
                    \* raises of runMe by the tick minus the calls of the task, the
                    \* table as the registry call under way found it, the ticks taken
                    \* since that call began
    lastErrorCode,  \* the code of the last error reported (SpecReport)
    errorTickCount, \* the time left before the error code is reset (SpecReport)
    errorPort       \* the port with the LEDs that display the error (SpecReport)

\* the variables of schedulerReportStatus
report == <<lastErrorCode, errorTickCount, errorPort>>

\* the variables that only some of the specifications follow
aux == <<mc, obs, report>>

vars == <<schedulerTasks, errorCode, ret, di, hist, mc, obs, report>>

\* ------------------------------------------------------------- the code
\* unsigned pre-decrement / pre-increment of a word
Dec(x) == (x + WordModulus - 1) % WordModulus
Inc(x) == (x + 1) % WordModulus

\* schedulerDeleteTask: result [tasks, errorCode, val]
\* (variant: only the function pointer of the slot is cleared)
schedulerDeleteTask_clearsOnlyPTask(t, e, taskIndex) ==
    IF taskIndex >= SCHEDULER_MAX_TASKS
    THEN [tasks |-> t, errorCode |-> e, val |-> RETURN_ERROR]
    ELSE LET empty == t[taskIndex].pTask = NULL
         IN  [tasks     |-> [t EXCEPT ![taskIndex].pTask = NULL],
              errorCode |-> IF empty THEN ERROR_CANNOT_DELETE_TASK ELSE e,
              val       |-> IF empty THEN RETURN_ERROR ELSE RETURN_NORMAL]

\* (variant: the empty slot is reported by the return value alone)
schedulerDeleteTask_silent(t, e, taskIndex) ==
    IF taskIndex >= SCHEDULER_MAX_TASKS
    THEN [tasks |-> t, errorCode |-> e, val |-> RETURN_ERROR]
    ELSE LET empty == t[taskIndex].pTask = NULL
         IN  [tasks     |-> [t EXCEPT ![taskIndex] = ZeroTask],
              errorCode |-> e,
              val       |-> IF empty THEN RETURN_ERROR ELSE RETURN_NORMAL]

schedulerDeleteTask(t, e, taskIndex) ==
    IF taskIndex >= SCHEDULER_MAX_TASKS
    THEN [tasks |-> t, errorCode |-> e, val |-> RETURN_ERROR]
    ELSE LET empty == t[taskIndex].pTask = NULL
         IN  [tasks     |-> [t EXCEPT ![taskIndex] = ZeroTask],
              errorCode |-> IF empty THEN ERROR_CANNOT_DELETE_TASK ELSE e,
              val       |-> IF empty THEN RETURN_ERROR ELSE RETURN_NORMAL]

\* the loop of schedulerInit from index i on; result [tasks, errorCode]
RECURSIVE InitLoop(_, _, _)
InitLoop(t, e, i) ==
    IF i < SCHEDULER_MAX_TASKS
    THEN LET r == schedulerDeleteTask(t, e, i)
         IN  InitLoop(r.tasks, r.errorCode, i + 1)
    ELSE [tasks |-> t, errorCode |-> e]

\* (variant: the error code left by the deletes is not reset)
schedulerInit_keepsError(t, e) == InitLoop(t, e, 0)

schedulerInit(t, e) == [InitLoop(t, e, 0) EXCEPT !.errorCode = 0]

\* the while loop of schedulerAddTask: first gap at or after i
RECURSIVE FindGap(_, _)
FindGap(t, i) ==
    IF i < SCHEDULER_MAX_TASKS /\ t[i].pTask # NULL THEN FindGap(t, i + 1) ELSE i

\* schedulerAddTask: result [tasks, errorCode, val]
\* (variant: a full table is reported but the last slot is written all the same)
schedulerAddTask_overwritesLast(t, e, pFunction, context, delay, period) ==
    LET g == FindGap(t, 0)
        i == IF g = SCHEDULER_MAX_TASKS THEN SCHEDULER_MAX_TASKS - 1 ELSE g
    IN  [tasks |-> [t EXCEPT ![i] = Task(pFunction, context, delay, period, 0)],
         errorCode |-> IF g = SCHEDULER_MAX_TASKS THEN ERROR_TOO_MANY_TASKS ELSE e,
         val |-> g]

\* (variant: the gap search runs downwards from the last slot)
RECURSIVE FindGapDown(_, _)
FindGapDown(t, i) ==
    IF i >= 0 /\ t[i].pTask # NULL THEN FindGapDown(t, i - 1) ELSE i

schedulerAddTask_searchesDown(t, e, pFunction, context, delay, period) ==
    LET i == FindGapDown(t, SCHEDULER_MAX_TASKS - 1)
    IN  IF i < 0
        THEN [tasks |-> t, errorCode |-> ERROR_TOO_MANY_TASKS, val |-> SCHEDULER_MAX_TASKS]
        ELSE [tasks |-> [t EXCEPT ![i] = Task(pFunction, context, delay, period, 0)],
              errorCode |-> e, val |-> i]

schedulerAddTask(t, e, pFunction, context, delay, period) ==
    LET i == FindGap(t, 0)
    IN  IF i = SCHEDULER_MAX_TASKS
        THEN [tasks |-> t, errorCode |-> ERROR_TOO_MANY_TASKS, val |-> SCHEDULER_MAX_TASKS]
        ELSE [tasks |-> [t EXCEPT ![i] = Task(pFunction, context, delay, period, 0)],
              errorCode |-> e, val |-> i]

\* schedulerModifyTaskPeriod: result [tasks, errorCode, val]
\* (variant: the running countdown is restarted with the new period)
schedulerModifyTaskPeriod_restarts(t, e, taskIndex, newPeriod) ==
    IF taskIndex >= SCHEDULER_MAX_TASKS \/ t[taskIndex].pTask = NULL
    THEN [tasks |-> t, errorCode |-> e, val |-> RETURN_ERROR]
    ELSE [tasks |-> [t EXCEPT ![taskIndex].period = newPeriod, ![taskIndex].delay = newPeriod],
          errorCode |-> e, val |-> RETURN_NORMAL]

schedulerModifyTaskPeriod(t, e, taskIndex, newPeriod) ==
    IF taskIndex >= SCHEDULER_MAX_TASKS
    THEN [tasks |-> t, errorCode |-> e, val |-> RETURN_ERROR]
    ELSE IF t[taskIndex].pTask = NULL
         THEN [tasks |-> t, errorCode |-> e, val |-> RETURN_ERROR]
         ELSE [tasks |-> [t EXCEPT ![taskIndex].period = newPeriod],
               errorCode |-> e, val |-> RETURN_NORMAL]

\* one iteration of the loop of schedulerUpdate on slot s
\* (variant: the delay of a periodic task is not reloaded)
UpdateSlot_noReload(s) ==
    IF s.pTask = NULL
    THEN s
    ELSE LET d == Dec(s.delay)
         IN  IF d > 0
             THEN [s EXCEPT !.delay = d]
             ELSE [s EXCEPT !.delay = d, !.runMe = Inc(s.runMe)]

\* (variant: the delay is counted down in free slots too)
UpdateSlot_countsFreeSlots(s) ==
    LET d == Dec(s.delay)
    IN  IF s.pTask = NULL
        THEN [s EXCEPT !.delay = d]
        ELSE IF d > 0
             THEN [s EXCEPT !.delay = d]
             ELSE [s EXCEPT !.delay = IF s.period # 0 THEN s.period ELSE d,
                            !.runMe = Inc(s.runMe)]

UpdateSlot(s) ==
    IF s.pTask = NULL
    THEN s
    ELSE LET d == Dec(s.delay)
         IN  IF d > 0
             THEN [s EXCEPT !.delay = d]
             ELSE [s EXCEPT !.delay = IF s.period # 0 THEN s.period ELSE d,
                            !.runMe = Inc(s.runMe)]

\* schedulerUpdate: the iterations touch one slot each
schedulerUpdate(t) == [i \in Slots |-> UpdateSlot(t[i])]

\* one iteration of the loop of schedulerDispatchTasks on slot i;
\* result [tasks, errorCode, ran]
\* (variant: the loop bound is off by one and the last slot is never served)
DispatchSlot_skipsLastSlot(t, e, i) ==
    IF t[i].runMe > 0 /\ i < SCHEDULER_MAX_TASKS - 1
    THEN LET t1 == [t EXCEPT ![i].runMe = Dec(t[i].runMe)]
         IN  IF t1[i].period = 0
             THEN LET r == schedulerDeleteTask(t1, e, i)
                  IN  [tasks |-> r.tasks, errorCode |-> r.errorCode, ran |-> TRUE]
             ELSE [tasks |-> t1, errorCode |-> e, ran |-> TRUE]
    ELSE [tasks |-> t, errorCode |-> e, ran |-> FALSE]

\* (variant: the call clears the whole backlog of the slot)
DispatchSlot_drainsBacklog(t, e, i) ==
    IF t[i].runMe > 0
    THEN LET t1 == [t EXCEPT ![i].runMe = 0]
         IN  IF t1[i].period = 0
             THEN LET r == schedulerDeleteTask(t1, e, i)
                  IN  [tasks |-> r.tasks, errorCode |-> r.errorCode, ran |-> TRUE]
             ELSE [tasks |-> t1, errorCode |-> e, ran |-> TRUE]
    ELSE [tasks |-> t, errorCode |-> e, ran |-> FALSE]

DispatchSlot(t, e, i) ==
    IF t[i].runMe > 0
    THEN LET t1 == [t EXCEPT ![i].runMe = Dec(t[i].runMe)]
         IN  IF t1[i].period = 0
             THEN LET r == schedulerDeleteTask(t1, e, i)
                  IN  [tasks |-> r.tasks, errorCode |-> r.errorCode, ran |-> TRUE]
             ELSE [tasks |-> t1, errorCode |-> e, ran |-> TRUE]
    ELSE [tasks |-> t, errorCode |-> e, ran |-> FALSE]

\* schedulerDispatchTasks after the call of the task of slot i has returned:
\* result [tasks, errorCode]
AfterCall(t, e, i) ==
    LET t1 == [t EXCEPT ![i].runMe = Dec(t[i].runMe)]
    IN  IF t1[i].period = 0
        THEN LET r == schedulerDeleteTask(t1, e, i)
             IN  [tasks |-> r.tasks, errorCode |-> r.errorCode]
        ELSE [tasks |-> t1, errorCode |-> e]

\* schedulerReportStatus as built with SCH_REPORT_ERRORS: result [errorCode,
\* lastErrorCode, errorTickCount, errorPort]
schedulerReportStatus(e, last, count, port) ==
    IF e # last
    THEN [errorCode |-> e, lastErrorCode |-> e,
          errorTickCount |-> IF e # 0 THEN ReportTicks ELSE 0,
          errorPort |-> 255 - e]
    ELSE IF count # 0
         THEN [errorCode |-> IF count - 1 = 0 THEN 0 ELSE e, lastErrorCode |-> last,
               errorTickCount |-> count - 1, errorPort |-> port]
         ELSE [errorCode |-> e, lastErrorCode |-> last, errorTickCount |-> count,
               errorPort |-> port]

\* ------------------------------------------------------------- history
\* since:    ticks taken since the task was added or since its runMe was last raised
\* target:   the countdown that was loaded then (the delay of the add, the period
\*           requested at the time of a reload)
\* per:      the period requested last (add or modify)
\* modified: schedulerModifyTaskPeriod succeeded on the task
\* regZero:  the task was added with delay 0
\* dueIn:    ticks still to come before the first run of the task is owed
NoHist == [since |-> 0, target |-> 0, per |-> 0, modified |-> FALSE, regZero |-> FALSE,
           dueIn |-> 0]

NoObs == [owed |-> [i \in Slots |-> 0], snap |-> [i \in Slots |-> ZeroTask], k |-> 0]

NoMc == [pc |-> "main", n |-> 0, i |-> 0, tmp |-> 0, task |-> ZeroTask]

NoRet == [fn |-> "none", arg |-> 0, val |-> 0, pend |-> 0, task |-> ZeroTask, ran |-> <<>>]

Occupied(t, i) == t[i].pTask # NULL

Min(a, b) == IF a < b THEN a ELSE b
Max(a, b) == IF a > b THEN a ELSE b

\* the largest runMe among the first n slots
RECURSIVE MaxRunMeOf(_, _)
MaxRunMeOf(t, n) == IF n = 0 THEN 0 ELSE Max(t[n - 1].runMe, MaxRunMeOf(t, n - 1))

\* ------------------------------------------------------------- steps of the program
Init ==
    /\ schedulerTasks = [i \in Slots |-> ZeroTask]
    /\ errorCode = 0
    /\ ret = NoRet
    /\ di = 0
    /\ hist = [i \in Slots |-> NoHist]
    /\ mc = NoMc
    /\ obs = NoObs
    /\ lastErrorCode = 0
    /\ errorTickCount = 0
    /\ errorPort = 0

\* Registry calls are made from the main context between two dispatch passes.
InitStep ==
    /\ di = 0
    /\ LET r == schedulerInit(schedulerTasks, errorCode)
       IN  /\ schedulerTasks' = r.tasks
           /\ errorCode' = r.errorCode
    /\ UNCHANGED di

AddTaskStep(f, c, d, p) ==
    /\ di = 0
    /\ LET r == schedulerAddTask(schedulerTasks, errorCode, f, c, d, p)
       IN  /\ schedulerTasks' = r.tasks
           /\ errorCode' = r.errorCode
    /\ UNCHANGED di

ModifyTaskPeriodStep(id, np) ==
    /\ di = 0
    /\ LET r == schedulerModifyTaskPeriod(schedulerTasks, errorCode, id, np)
       IN  /\ schedulerTasks' = r.tasks
           /\ errorCode' = r.errorCode
    /\ UNCHANGED di

DeleteTaskStep(id) ==
    /\ di = 0
    /\ LET r == schedulerDeleteTask(schedulerTasks, errorCode, id)
       IN  /\ schedulerTasks' = r.tasks
           /\ errorCode' = r.errorCode
    /\ UNCHANGED di

\* The tick interrupt: schedulerUpdate runs to completion in interrupt context and
\* wakes a main context that is parked in __WFI.
TickStep ==
    /\ \A i \in Slots : schedulerTasks[i].runMe < MaxRunMe
    /\ schedulerTasks' = schedulerUpdate(schedulerTasks)
    /\ di' = IF di = SCHEDULER_MAX_TASKS THEN 0 ELSE di
    /\ UNCHANGED errorCode

\* One iteration of the dispatch loop (entering the loop when di = 0); after the last
\* one schedulerReportStatus is compiled out and __WFI parks the main context.
DispatchStep ==
    /\ di < SCHEDULER_MAX_TASKS
    /\ LET r == DispatchSlot(schedulerTasks, errorCode, di)
       IN  /\ schedulerTasks' = r.tasks
           /\ errorCode' = r.errorCode
    /\ di' = di + 1

\* ------------------------------------------------------------- the program
\* Every step, with the call and its return value recorded in ret.
InitCall ==
    /\ InitStep
    /\ ret' = [NoRet EXCEPT !.fn = "schedulerInit",
                            !.pend = MaxRunMeOf(schedulerTasks, SCHEDULER_MAX_TASKS)]
    /\ UNCHANGED <<hist, aux>>

AddTask(f, c, d, p) ==
    /\ AddTaskStep(f, c, d, p)
    /\ LET val == schedulerAddTask(schedulerTasks, errorCode, f, c, d, p).val
       IN  ret' = [NoRet EXCEPT !.fn = "schedulerAddTask", !.val = val,
                                !.task = IF val \in Slots THEN Task(f, c, d, p, 0)
                                         ELSE ZeroTask]
    /\ UNCHANGED <<hist, aux>>

ModifyTaskPeriod(id, np) ==
    /\ ModifyTaskPeriodStep(id, np)
    /\ ret' = [NoRet EXCEPT !.fn = "schedulerModifyTaskPeriod", !.arg = id,
                 !.val = schedulerModifyTaskPeriod(schedulerTasks, errorCode, id, np).val]
    /\ UNCHANGED <<hist, aux>>

DeleteTask(id) ==
    /\ DeleteTaskStep(id)
    /\ ret' = [NoRet EXCEPT !.fn = "schedulerDeleteTask", !.arg = id,
                 !.val = schedulerDeleteTask(schedulerTasks, errorCode, id).val,
                 !.pend = IF id \in Slots THEN schedulerTasks[id].runMe ELSE 0]
    /\ UNCHANGED <<hist, aux>>

Tick ==
    /\ TickStep
    /\ ret' = [NoRet EXCEPT !.fn = "schedulerUpdate", !.ran = ret.ran]
    /\ UNCHANGED <<hist, aux>>

Dispatch ==
    /\ DispatchStep
    /\ LET ran == DispatchSlot(schedulerTasks, errorCode, di).ran
           sofar == IF di = 0 THEN <<>> ELSE ret.ran
       IN  ret' = [NoRet EXCEPT !.fn = "schedulerDispatchTasks", !.arg = di,
                                !.val = IF ran THEN 1 ELSE 0,
                                !.ran = IF ran THEN Append(sofar, di) ELSE sofar]
    /\ UNCHANGED <<hist, aux>>

Next ==
    \/ InitCall
    \/ \E f \in Functions, c \in Contexts, d \in Args, p \in Args : AddTask(f, c, d, p)
    \/ \E id \in Indices, np \in Args : ModifyTaskPeriod(id, np)
    \/ \E id \in Indices : DeleteTask(id)
    \/ Tick
    \/ Dispatch

Spec == Init /\ [][Next]_vars

\* ------------------------------------------------------------- the program, running
\* The program with the main loop and the timer running: schedulerDispatchTasks is
\* called again and again by the main loop, and the timer started by schedulerStart
\* keeps raising the tick interrupt, which ends the __WFI of a parked main context.
WakeStep ==
    /\ di = SCHEDULER_MAX_TASKS
    /\ schedulerTasks' = schedulerUpdate(schedulerTasks)
    /\ di' = 0
    /\ UNCHANGED errorCode

Wake ==
    /\ WakeStep
    /\ ret' = [NoRet EXCEPT !.fn = "schedulerUpdate", !.ran = ret.ran]
    /\ UNCHANGED <<hist, aux>>

LiveNext ==
    \/ InitCall
    \/ \E f \in Functions, c \in Contexts, d \in Args, p \in Args : AddTask(f, c, d, p)
    \/ \E id \in Indices, np \in Args : ModifyTaskPeriod(id, np)
    \/ \E id \in Indices : DeleteTask(id)
    \/ Tick
    \/ Wake
    \/ Dispatch

SpecLive == Init /\ [][LiveNext]_vars /\ WF_vars(Dispatch) /\ WF_vars(Wake)

\* ------------------------------------------------------------- the program, timed
\* The same steps with the history of every slot recorded in hist; the tasks
\* registered are one function with one context, of every delay and period.
TimedInit ==
    /\ InitStep
    /\ hist' = [i \in Slots |-> NoHist]
    /\ UNCHANGED <<ret, aux>>

TimedAddTask(d, p) ==
    /\ AddTaskStep(1, 1, d, p)
    /\ LET val == schedulerAddTask(schedulerTasks, errorCode, 1, 1, d, p).val
       IN  hist' = IF val \in Slots
                   THEN [hist EXCEPT ![val] =
                            [since |-> 0, target |-> d, per |-> p, modified |-> FALSE,
                             regZero |-> (d = 0), dueIn |-> Max(d, 1)]]
                   ELSE hist
    /\ UNCHANGED <<ret, aux>>

TimedModifyTaskPeriod(id, np) ==
    /\ ModifyTaskPeriodStep(id, np)
    /\ hist' = IF schedulerModifyTaskPeriod(schedulerTasks, errorCode, id, np).val
                    = RETURN_NORMAL
               THEN [hist EXCEPT ![id].per = np, ![id].modified = TRUE]
               ELSE hist
    /\ UNCHANGED <<ret, aux>>

TimedDeleteTask(id) ==
    /\ DeleteTaskStep(id)
    /\ hist' = IF id \in Slots THEN [hist EXCEPT ![id] = NoHist] ELSE hist
    /\ UNCHANGED <<ret, aux>>

TimedTick ==
    /\ TickStep
    /\ hist' = [i \in Slots |->
                  IF ~Occupied(schedulerTasks, i)
                  THEN hist[i]
                  ELSE LET h == hist[i]
                           raised == schedulerTasks'[i].runMe # schedulerTasks[i].runMe
                       IN  [h EXCEPT !.since = IF raised THEN 0 ELSE Min(h.since + 1, WordModulus),
                                     !.target = IF raised THEN h.per ELSE h.target,
                                     !.dueIn = Max(h.dueIn - 1, 0)]]
    /\ UNCHANGED <<ret, aux>>

TimedDispatch ==
    /\ DispatchStep
    /\ hist' = IF Occupied(schedulerTasks', di) THEN hist ELSE [hist EXCEPT ![di] = NoHist]
    /\ UNCHANGED <<ret, aux>>

TimedNext ==
    \/ TimedInit
    \/ \E d \in Args, p \in Args : TimedAddTask(d, p)
    \/ \E id \in Slots, np \in Args : TimedModifyTaskPeriod(id, np)
    \/ \E id \in Slots : TimedDeleteTask(id)
    \/ TimedTick
    \/ TimedDispatch

SpecTimed == Init /\ [][TimedNext]_vars

\* ------------------------------------------------------------- the program, tasks calling the registry
\* The dispatch loop followed through the call of a task: the task that is running
\* may call the registry itself (on its own slot or on another one) before it
\* returns.  mc.pc: "main" = in the main program or the loop, "task" = inside the
\* task of slot di, "dec" = the task has returned, "fault" = the loop has called a
\* null function pointer.
MainInit ==
    /\ mc.pc = "main"
    /\ InitStep
    /\ UNCHANGED <<ret, hist, mc, obs, report>>

MainAddTask(f, c, d, p) ==
    /\ mc.pc = "main"
    /\ AddTaskStep(f, c, d, p)
    /\ UNCHANGED <<ret, hist, mc, obs, report>>

MainModifyTaskPeriod(id, np) ==
    /\ mc.pc = "main"
    /\ ModifyTaskPeriodStep(id, np)
    /\ UNCHANGED <<ret, hist, mc, obs, report>>

MainDeleteTask(id) ==
    /\ mc.pc = "main"
    /\ DeleteTaskStep(id)
    /\ UNCHANGED <<ret, hist, mc, obs, report>>

\* the running task may make one more registry call
TaskMayCall == mc.pc = "task" /\ mc.n < MaxCalls

TaskInit ==
    /\ TaskMayCall
    /\ LET r == schedulerInit(schedulerTasks, errorCode)
       IN  /\ schedulerTasks' = r.tasks
           /\ errorCode' = r.errorCode
    /\ mc' = [mc EXCEPT !.n = mc.n + 1]
    /\ UNCHANGED <<di, ret, hist, obs, report>>

TaskAddTask(f, c, d, p) ==
    /\ TaskMayCall
    /\ LET r == schedulerAddTask(schedulerTasks, errorCode, f, c, d, p)
       IN  /\ schedulerTasks' = r.tasks
           /\ errorCode' = r.errorCode
    /\ mc' = [mc EXCEPT !.n = mc.n + 1]
    /\ UNCHANGED <<di, ret, hist, obs, report>>

TaskModifyTaskPeriod(id, np) ==
    /\ TaskMayCall
    /\ LET r == schedulerModifyTaskPeriod(schedulerTasks, errorCode, id, np)
       IN  /\ schedulerTasks' = r.tasks
           /\ errorCode' = r.errorCode
    /\ mc' = [mc EXCEPT !.n = mc.n + 1]
    /\ UNCHANGED <<di, ret, hist, obs, report>>

TaskDeleteTask(id) ==
    /\ TaskMayCall
    /\ LET r == schedulerDeleteTask(schedulerTasks, errorCode, id)
       IN  /\ schedulerTasks' = r.tasks
           /\ errorCode' = r.errorCode
    /\ mc' = [mc EXCEPT !.n = mc.n + 1]
    /\ UNCHANGED <<di, ret, hist, obs, report>>

\* The loop tests the runMe of slot di and, if it is > 0, calls t->pTask.
LoopTest ==
    /\ mc.pc = "main"
    /\ di < SCHEDULER_MAX_TASKS
    /\ IF schedulerTasks[di].runMe > 0
       THEN /\ mc' = [NoMc EXCEPT !.pc = IF schedulerTasks[di].pTask = NULL
                                         THEN "fault" ELSE "task"]
            /\ UNCHANGED di
       ELSE /\ di' = di + 1
            /\ UNCHANGED mc
    /\ UNCHANGED <<schedulerTasks, errorCode, ret, hist, obs, report>>

TaskReturn ==
    /\ mc.pc = "task"
    /\ mc' = [NoMc EXCEPT !.pc = "dec"]
    /\ UNCHANGED <<schedulerTasks, errorCode, di, ret, hist, obs, report>>

\* -- t->runMe and the removal of a one-shot task, then on to the next slot.
LoopDecrement ==
    /\ mc.pc = "dec"
    /\ LET r == AfterCall(schedulerTasks, errorCode, di)
       IN  /\ schedulerTasks' = r.tasks
           /\ errorCode' = r.errorCode
    /\ di' = di + 1
    /\ mc' = NoMc
    /\ UNCHANGED <<ret, hist, obs, report>>

\* The tick interrupt, at any point of the main context that is still running.
TaskTick ==
    /\ mc.pc # "fault"
    /\ TickStep
    /\ UNCHANGED <<ret, hist, mc, obs, report>>

TaskWake ==
    /\ WakeStep
    /\ UNCHANGED <<ret, hist, mc, obs, report>>

CallableNext ==
    \/ MainInit
    \/ \E f \in Functions, c \in Contexts, d \in Args, p \in Args : MainAddTask(f, c, d, p)
    \/ \E id \in Indices, np \in Args : MainModifyTaskPeriod(id, np)
    \/ \E id \in Indices : MainDeleteTask(id)
    \/ TaskInit
    \/ \E f \in Functions, c \in Contexts, d \in Args, p \in Args : TaskAddTask(f, c, d, p)
    \/ \E id \in Indices, np \in Args : TaskModifyTaskPeriod(id, np)
    \/ \E id \in Indices : TaskDeleteTask(id)
    \/ LoopTest
    \/ TaskReturn
    \/ LoopDecrement
    \/ TaskTick
    \/ TaskWake

SpecCallable == Init /\ [][CallableNext]_vars

\* ------------------------------------------------------------- the program, interrupted
\* The main context followed access by access, with the tick interrupt free to
\* arrive between any two of its accesses to the table: no call masks it.
\* mc.pc: "main" = between calls or loop iterations; "add_pTask" .. "add_runMe" =
\* schedulerAddTask before that assignment; "ms_pTask", "ms_rest" = the memset of
\* schedulerDeleteTask before it clears the function pointer / the fields behind
\* it; "load", "store" = the dispatch loop before the read / the write of
\* -- t->runMe; "period" = before the test of t->period; "fault" = the loop has
\* called a null function pointer.  Tasks make no registry calls here.

\* the field that schedulerAddTask assigns at pc, and the pc that follows
AddField(pc) ==
    CASE pc = "add_pTask"   -> [field |-> "pTask",   next |-> "add_context"]
      [] pc = "add_context" -> [field |-> "context", next |-> "add_delay"]
      [] pc = "add_delay"   -> [field |-> "delay",   next |-> "add_period"]
      [] pc = "add_period"  -> [field |-> "period",  next |-> "add_runMe"]
      [] pc = "add_runMe"   -> [field |-> "runMe",   next |-> "main"]

AddPcs == {"add_pTask", "add_context", "add_delay", "add_period", "add_runMe"}

\* a registry call of the main program is under way
InCall == mc.pc \in AddPcs \/ (mc.pc \in {"ms_pTask", "ms_rest"} /\ mc.n = 0)

\* schedulerAddTask up to the choice of the slot (the search reads the function
\* pointers only, which the tick never writes).
IsrAddFind(f, c, d, p) ==
    /\ mc.pc = "main" /\ di = 0
    /\ LET i == FindGap(schedulerTasks, 0)
       IN  IF i = SCHEDULER_MAX_TASKS
           THEN /\ errorCode' = ERROR_TOO_MANY_TASKS
                /\ UNCHANGED <<mc, obs, report>>
           ELSE /\ mc' = [NoMc EXCEPT !.pc = "add_pTask", !.i = i,
                                      !.task = Task(f, c, d, p, 0)]
                /\ obs' = [obs EXCEPT !.snap = schedulerTasks, !.k = 0]
                /\ UNCHANGED errorCode
    /\ UNCHANGED <<schedulerTasks, di, ret, hist, report>>

\* one of the five assignments of schedulerAddTask
IsrAddWrite ==
    /\ mc.pc \in AddPcs
    /\ LET a == AddField(mc.pc)
       IN  /\ schedulerTasks' = [schedulerTasks EXCEPT ![mc.i][a.field] = mc.task[a.field]]
           /\ mc' = IF a.next = "main" THEN NoMc ELSE [mc EXCEPT !.pc = a.next]
           /\ obs' = IF a.next = "main"
                     THEN [obs EXCEPT !.owed[mc.i] = 0, !.snap = NoObs.snap, !.k = 0]
                     ELSE obs
    /\ UNCHANGED <<errorCode, di, ret, hist, report>>

\* schedulerModifyTaskPeriod makes a single write.
IsrModifyTaskPeriod(id, np) ==
    /\ mc.pc = "main"
    /\ ModifyTaskPeriodStep(id, np)
    /\ UNCHANGED <<ret, hist, mc, obs, report>>

\* schedulerDeleteTask up to the memset.
IsrDeleteTest(id) ==
    /\ mc.pc = "main" /\ di = 0
    /\ IF id >= SCHEDULER_MAX_TASKS
       THEN UNCHANGED <<errorCode, mc, obs, report>>
       ELSE /\ errorCode' = IF schedulerTasks[id].pTask = NULL
                            THEN ERROR_CANNOT_DELETE_TASK ELSE errorCode
            /\ mc' = [NoMc EXCEPT !.pc = "ms_pTask", !.i = id]
            /\ obs' = [obs EXCEPT !.snap = schedulerTasks, !.k = 0]
    /\ UNCHANGED <<schedulerTasks, di, ret, hist, report>>

\* The memset clears the slot from its first byte on: the function pointer first.
\* Once that is null the tick skips the slot, so the clearing of the fields behind
\* it is taken as one step.
IsrMemsetFirst ==
    /\ mc.pc = "ms_pTask"
    /\ schedulerTasks' = [schedulerTasks EXCEPT ![mc.i].pTask = NULL]
    /\ mc' = [mc EXCEPT !.pc = "ms_rest"]
    /\ UNCHANGED <<errorCode, di, ret, hist, obs, report>>

IsrMemsetRest ==
    /\ mc.pc = "ms_rest"
    /\ schedulerTasks' = [schedulerTasks EXCEPT ![mc.i] = ZeroTask]
    /\ di' = IF mc.n = 1 THEN di + 1 ELSE di
    /\ mc' = NoMc
    /\ obs' = [obs EXCEPT !.owed[mc.i] = 0, !.snap = NoObs.snap, !.k = 0]
    /\ UNCHANGED <<errorCode, ret, hist, report>>

\* The loop tests the runMe of slot di and, if it is > 0, calls the task, which
\* runs and returns.
IsrLoopTest ==
    /\ mc.pc = "main"
    /\ di < SCHEDULER_MAX_TASKS
    /\ IF schedulerTasks[di].runMe > 0
       THEN /\ mc' = [NoMc EXCEPT !.pc = IF schedulerTasks[di].pTask = NULL
                                         THEN "fault" ELSE "load"]
            /\ obs' = [obs EXCEPT !.owed[di] = obs.owed[di] - 1]
            /\ UNCHANGED di
       ELSE /\ di' = di + 1
            /\ UNCHANGED <<mc, obs, report>>
    /\ UNCHANGED <<schedulerTasks, errorCode, ret, hist, report>>

\* -- t->runMe is a read of the counter ...
IsrLoad ==
    /\ mc.pc = "load"
    /\ mc' = [mc EXCEPT !.pc = "store", !.tmp = schedulerTasks[di].runMe]
    /\ UNCHANGED <<schedulerTasks, errorCode, di, ret, hist, obs, report>>

\* ... and a write of the value read, less one.
IsrStore ==
    /\ mc.pc = "store"
    /\ schedulerTasks' = [schedulerTasks EXCEPT ![di].runMe = Dec(mc.tmp)]
    /\ mc' = [mc EXCEPT !.pc = "period", !.tmp = 0]
    /\ UNCHANGED <<errorCode, di, ret, hist, obs, report>>

\* The test of t->period; a one-shot task goes through schedulerDeleteTask (di).
IsrPeriodTest ==
    /\ mc.pc = "period"
    /\ IF schedulerTasks[di].period = 0
       THEN /\ errorCode' = IF schedulerTasks[di].pTask = NULL
                            THEN ERROR_CANNOT_DELETE_TASK ELSE errorCode
            /\ mc' = [NoMc EXCEPT !.pc = "ms_pTask", !.i = di, !.n = 1]
            /\ UNCHANGED di
       ELSE /\ di' = di + 1
            /\ mc' = NoMc
            /\ UNCHANGED errorCode
    /\ UNCHANGED <<schedulerTasks, ret, hist, obs, report>>

\* The tick interrupt: schedulerUpdate runs to completion wherever the main context
\* is.
IsrTick ==
    /\ mc.pc # "fault"
    /\ InCall => obs.k < MaxTicksInCall
    /\ \A i \in Slots : obs.owed[i] < MaxRunMe
    /\ TickStep
    /\ obs' = [obs EXCEPT
                  !.owed = [i \in Slots |->
                               IF schedulerTasks'[i].runMe # schedulerTasks[i].runMe
                               THEN obs.owed[i] + 1 ELSE obs.owed[i]],
                  !.k = IF InCall THEN obs.k + 1 ELSE obs.k]
    /\ UNCHANGED <<ret, hist, mc, report>>

IsrNext ==
    \/ \E f \in Functions, c \in Contexts, d \in Args, p \in Args : IsrAddFind(f, c, d, p)
    \/ IsrAddWrite
    \/ \E id \in Indices, np \in Args : IsrModifyTaskPeriod(id, np)
    \/ \E id \in Indices : IsrDeleteTest(id)
    \/ IsrMemsetFirst
    \/ IsrMemsetRest
    \/ IsrLoopTest
    \/ IsrLoad
    \/ IsrStore
    \/ IsrPeriodTest
    \/ IsrTick

SpecIsr == Init /\ [][IsrNext]_vars

\* ------------------------------------------------------------- the program, reporting
\* The program built with SCH_REPORT_ERRORS: every dispatch pass ends with a call of
\* schedulerReportStatus before it parks in __WFI.  mc.pc: "main" = in the main
\* program, the loop or parked, "report" = the loop is done and
\* schedulerReportStatus is about to run.
RepInit ==
    /\ mc.pc = "main"
    /\ InitStep
    /\ UNCHANGED <<ret, hist, aux>>

RepAddTask(d, p) ==
    /\ mc.pc = "main"
    /\ AddTaskStep(1, 1, d, p)
    /\ UNCHANGED <<ret, hist, aux>>

RepDeleteTask(id) ==
    /\ mc.pc = "main"
    /\ DeleteTaskStep(id)
    /\ UNCHANGED <<ret, hist, aux>>

RepDispatch ==
    /\ mc.pc = "main"
    /\ DispatchStep
    /\ mc' = IF di + 1 = SCHEDULER_MAX_TASKS THEN [NoMc EXCEPT !.pc = "report"] ELSE mc
    /\ UNCHANGED <<ret, hist, obs, report>>

RepStatus ==
    /\ mc.pc = "report"
    /\ LET r == schedulerReportStatus(errorCode, lastErrorCode, errorTickCount, errorPort)
       IN  /\ errorCode' = r.errorCode
           /\ lastErrorCode' = r.lastErrorCode
           /\ errorTickCount' = r.errorTickCount
           /\ errorPort' = r.errorPort
    /\ mc' = NoMc
    /\ UNCHANGED <<schedulerTasks, di, ret, hist, obs>>

\* The tick; it ends the __WFI of a main context that has parked.
RepTick ==
    /\ \A i \in Slots : schedulerTasks[i].runMe < MaxRunMe
    /\ schedulerTasks' = schedulerUpdate(schedulerTasks)
    /\ di' = IF di = SCHEDULER_MAX_TASKS /\ mc.pc = "main" THEN 0 ELSE di
    /\ UNCHANGED <<errorCode, ret, hist, aux>>

ReportNext ==
    \/ RepInit
    \/ \E d \in Args, p \in Args : RepAddTask(d, p)
    \/ \E id \in Indices : RepDeleteTask(id)
    \/ RepDispatch
    \/ RepStatus
    \/ RepTick

SpecReport == Init /\ [][ReportNext]_vars

\* ------------------------------------------------------------- claims
AllOccupied == \A i \in Slots : Occupied(schedulerTasks, i)
SomeFree == \E i \in Slots : ~Occupied(schedulerTasks, i)
\* the lowest index of a slot without a callable
LowestFree == CHOOSE i \in Slots :
                 /\ ~Occupied(schedulerTasks, i)
                 /\ \A j \in Slots : j < i => Occupied(schedulerTasks, j)
AllZero(s) == s.pTask = NULL /\ s.context = NULL /\ s.delay = 0 /\ s.period = 0 /\ s.runMe = 0
OthersUnchanged(i) == \A j \in Slots : j # i => schedulerTasks'[j] = schedulerTasks[j]

\* C1: with every slot occupied, schedulerAddTask returns SCHEDULER_MAX_TASKS, sets
\* the global error code and leaves every field of every slot as it was.
C1_FullTableRejectsAdd ==
    [][(ret'.fn = "schedulerAddTask" /\ AllOccupied) =>
          /\ ret'.val = SCHEDULER_MAX_TASKS
          /\ errorCode' # 0
          /\ schedulerTasks' = schedulerTasks]_vars

C1_Witness ==
    /\ AllOccupied
    /\ ret.fn = "schedulerAddTask" /\ ret.val = SCHEDULER_MAX_TASKS
    /\ errorCode # 0
    /\ \E i \in Slots : schedulerTasks[i].runMe > 0

\* C2: with a free slot, schedulerAddTask returns the lowest free index, leaves that
\* slot holding exactly the arguments with runMe = 0, and changes no other slot.
C2_AddFillsLowestFree ==
    [][(ret'.fn = "schedulerAddTask" /\ SomeFree) =>
          /\ ret'.val = LowestFree
          /\ schedulerTasks'[LowestFree].pTask = ret'.task.pTask
          /\ schedulerTasks'[LowestFree].context = ret'.task.context
          /\ schedulerTasks'[LowestFree].delay = ret'.task.delay
          /\ schedulerTasks'[LowestFree].period = ret'.task.period
          /\ schedulerTasks'[LowestFree].runMe = 0
          /\ OthersUnchanged(LowestFree)]_vars

\* An add returned index 0 while a higher slot is occupied: index 0 had been freed.
C2_Witness ==
    /\ ret.fn = "schedulerAddTask" /\ ret.val = 0
    /\ Occupied(schedulerTasks, 0)
    /\ \E j \in Slots : j > 0 /\ Occupied(schedulerTasks, j)

\* C5: schedulerDeleteTask on an occupied slot returns RETURN_NORMAL, zeroes every
\* field of the slot (a pending runMe included, so that no later dispatch step runs
\* it) and leaves every other slot as it was.
C5_DeleteZeroesSlot ==
    [][(ret'.fn = "schedulerDeleteTask" /\ ret'.arg \in Slots
          /\ Occupied(schedulerTasks, ret'.arg)) =>
              /\ ret'.val = RETURN_NORMAL
              /\ AllZero(schedulerTasks'[ret'.arg])
              /\ ~DispatchSlot(schedulerTasks', errorCode', ret'.arg).ran
              /\ OthersUnchanged(ret'.arg)]_vars

\* A delete succeeded on a slot that had a pending run, next to an occupied slot.
C5_Witness ==
    /\ ret.fn = "schedulerDeleteTask" /\ ret.val = RETURN_NORMAL /\ ret.pend > 0
    /\ AllZero(schedulerTasks[ret.arg])
    /\ \E j \in Slots : Occupied(schedulerTasks, j) /\ schedulerTasks[j].runMe > 0

\* the call made by the step fails: index past the table, or no callable in the slot
FailedIndexCall ==
    /\ ret'.fn \in {"schedulerDeleteTask", "schedulerModifyTaskPeriod"}
    /\ (ret'.arg >= SCHEDULER_MAX_TASKS \/ ~Occupied(schedulerTasks, ret'.arg))

\* C6 (as claimed): schedulerDeleteTask and schedulerModifyTaskPeriod with an index
\* past the table or on a slot without a callable return an error and alter no slot.
C6_FailedCallAltersNothing ==
    [][FailedIndexCall =>
          /\ ret'.val = RETURN_ERROR
          /\ schedulerTasks' = schedulerTasks]_vars

\* C8 (as claimed): every failing registry call returns an error code and latches a
\* non-zero value into the global error code.
C8_EveryFailureLatches ==
    [][/\ (ret'.fn = "schedulerAddTask" /\ AllOccupied) =>
              (ret'.val = SCHEDULER_MAX_TASKS /\ errorCode' # 0)
       /\ FailedIndexCall => (ret'.val = RETURN_ERROR /\ errorCode' # 0)]_vars

\* C8 (amended): every failing registry call returns an error code; a full-table
\* schedulerAddTask and a schedulerDeleteTask on a slot without a callable also latch
\* a non-zero error code, whereas schedulerDeleteTask with an index past the table
\* and every failing schedulerModifyTaskPeriod leave the error code as it was.
C8_FailureLatchesForAddAndEmptyDelete ==
    [][/\ (ret'.fn = "schedulerAddTask" /\ AllOccupied) =>
              (ret'.val = SCHEDULER_MAX_TASKS /\ errorCode' # 0)
       /\ FailedIndexCall =>
              /\ ret'.val = RETURN_ERROR
              /\ IF ret'.fn = "schedulerDeleteTask" /\ ret'.arg < SCHEDULER_MAX_TASKS
                 THEN errorCode' # 0
                 ELSE errorCode' = errorCode]_vars

\* A failing schedulerModifyTaskPeriod on an empty slot has returned and no error
\* code is latched.
C8_Witness ==
    /\ ret.fn = "schedulerModifyTaskPeriod" /\ ret.val = RETURN_ERROR
    /\ ret.arg \in Slots
    /\ errorCode = 0

\* C9: after schedulerInit every slot is free with all fields zero and the global
\* error code is 0, whatever they held before.
C9_InitClearsTableAndError ==
    [][ret'.fn = "schedulerInit" =>
          /\ \A i \in Slots : AllZero(schedulerTasks'[i])
          /\ errorCode' = 0]_vars

\* schedulerInit has run on a table that held a task with a pending run.
C9_Witness ==
    /\ ret.fn = "schedulerInit" /\ ret.pend > 0
    /\ \A i \in Slots : AllZero(schedulerTasks[i])
    /\ errorCode = 0

\* C10 (as claimed): a tick on an occupied slot whose delay is already zero raises
\* its runMe by one and, if period > 0, reloads delay = period.
C10_TickOnZeroDelayFires ==
    [][Tick =>
          \A i \in Slots :
              (Occupied(schedulerTasks, i) /\ schedulerTasks[i].delay = 0) =>
                  /\ schedulerTasks'[i].runMe = schedulerTasks[i].runMe + 1
                  /\ (schedulerTasks[i].period > 0 =>
                          schedulerTasks'[i].delay = schedulerTasks[i].period)]_vars

\* the tick of the step raises the runMe of slot i by one
Raised(i) == schedulerTasks'[i].runMe = schedulerTasks[i].runMe + 1
\* the tick of the step leaves the runMe of slot i as it was
NotRaised(i) == schedulerTasks'[i].runMe = schedulerTasks[i].runMe
\* slot i holds a task that was added with a delay >= 1 and a period > 0 and has
\* not been modified since
PlainPeriodic(i) ==
    /\ Occupied(schedulerTasks, i)
    /\ ~hist[i].modified
    /\ ~hist[i].regZero
    /\ hist[i].per > 0
\* slot i holds a task that was added with period 0 and has not been modified since
PlainOneShot(i) ==
    /\ Occupied(schedulerTasks, i)
    /\ ~hist[i].modified
    /\ hist[i].per = 0

\* C3: a task added with delay D >= 1 and period P > 0, not modified, has its runMe
\* raised by the tick exactly at the D-th tick after the add and then at every P-th
\* tick after the previous raise, and at no other tick.
C3_PeriodicFiresAtDThenEveryP ==
    [][TimedTick =>
          \A i \in Slots :
              PlainPeriodic(i) =>
                  /\ hist[i].target >= 1
                  /\ IF hist[i].since + 1 = hist[i].target THEN Raised(i) ELSE NotRaised(i)
                  /\ Raised(i) => hist'[i].target = hist[i].per]_vars

\* A task added with delay 1 or more and period 2 has been raised twice, the second
\* time just now, without having been dispatched.
C3_Witness ==
    \E i \in Slots :
        /\ PlainPeriodic(i)
        /\ hist[i].per = 2 /\ hist[i].target = 2 /\ hist[i].since = 0
        /\ schedulerTasks[i].runMe = 2

\* the dispatch step of this state calls the task of the slot it visits
Calls(i) == DispatchSlot(schedulerTasks, errorCode, i).ran

\* C4 (as claimed): a task added with period 0 and delay D is called by the first
\* dispatch step that visits it after the D-th tick and by none before, and its slot
\* is all zero right after that call (so that it is never called a second time).
C4_OneShotRunsOnceAfterDelay ==
    [][(TimedDispatch /\ PlainOneShot(di)) =>
          /\ Calls(di) <=> (hist[di].dueIn = 0)
          /\ Calls(di) => AllZero(schedulerTasks'[di])]_vars

\* the step is a schedulerModifyTaskPeriod that succeeds on slot i (the only step that
\* sets modified or, on a modified task, changes the period requested last)
ModifiedNow(i) ==
    /\ hist'[i].modified
    /\ (~hist[i].modified \/ hist'[i].per # hist[i].per)

\* the number of ticks the countdown that slot i loaded last takes to raise runMe: the
\* value loaded, and a whole turn of the word for a countdown loaded with 0
RunsOutAfter(i) == IF hist[i].target = 0 THEN WordModulus ELSE hist[i].target

\* C7: schedulerModifyTaskPeriod on an occupied slot changes the period of that slot
\* and nothing else of the table; the raise that is pending comes at the tick the
\* countdown loaded before the call runs out, and the countdown loaded at a raise is
\* the period requested last.
C7_ModifyChangesOnlyPeriod ==
    [][/\ \A i \in Slots :
              (Occupied(schedulerTasks, i) /\ ModifiedNow(i)) =>
                  /\ schedulerTasks'[i].period = hist'[i].per
                  /\ schedulerTasks'[i].delay = schedulerTasks[i].delay
                  /\ schedulerTasks'[i].runMe = schedulerTasks[i].runMe
                  /\ schedulerTasks'[i].pTask = schedulerTasks[i].pTask
                  /\ schedulerTasks'[i].context = schedulerTasks[i].context
                  /\ OthersUnchanged(i)
       /\ TimedTick =>
              \A i \in Slots :
                  (Occupied(schedulerTasks, i) /\ hist[i].modified) =>
                      /\ IF hist[i].since + 1 = RunsOutAfter(i) THEN Raised(i) ELSE NotRaised(i)
                      /\ (Raised(i) /\ hist[i].per > 0) =>
                             schedulerTasks'[i].delay = hist[i].per]_vars

\* schedulerModifyTaskPeriod has succeeded on a task while its countdown was running
\* and a raise was pending dispatch: the period differs from the countdown that was
\* loaded at that raise, and the delay is where the ticks since then have brought it.
C7_Witness ==
    \E i \in Slots :
        /\ Occupied(schedulerTasks, i)
        /\ hist[i].modified
        /\ 0 < hist[i].since /\ hist[i].since < hist[i].target
        /\ schedulerTasks[i].period # hist[i].target
        /\ schedulerTasks[i].delay = hist[i].target - hist[i].since
        /\ schedulerTasks[i].runMe > 0

\* C11: a dispatch pass visits the slots in ascending index order; an occupied slot
\* whose runMe is > 0 when it is visited has its task called once and its runMe
\* lowered by exactly one (a one-shot slot is freed instead), a slot whose runMe is 0
\* is not called and nothing of the table changes, and the slots called earlier in the
\* pass all have lower indices.
C11_PassServesDueSlotsInOrder ==
    [][Dispatch =>
          /\ ret'.arg = di /\ di' = di + 1
          /\ di # 0 => \A j \in 1 .. Len(ret.ran) : ret.ran[j] < di
          /\ (Occupied(schedulerTasks, di) /\ schedulerTasks[di].runMe > 0) =>
                 /\ ret'.val = 1
                 /\ ret'.ran = Append(IF di = 0 THEN <<>> ELSE ret.ran, di)
                 /\ IF schedulerTasks[di].period # 0
                    THEN schedulerTasks' =
                            [schedulerTasks EXCEPT ![di].runMe = schedulerTasks[di].runMe - 1]
                    ELSE AllZero(schedulerTasks'[di]) /\ OthersUnchanged(di)
          /\ schedulerTasks[di].runMe = 0 =>
                 /\ ret'.val = 0
                 /\ ret'.ran = (IF di = 0 THEN <<>> ELSE ret.ran)
                 /\ schedulerTasks' = schedulerTasks]_vars

\* A pass has called two tasks that were due together, the lower index first, and
\* the first one still has a backlog for the next pass.
C11_Witness ==
    /\ ret.fn = "schedulerDispatchTasks" /\ ret.val = 1
    /\ Len(ret.ran) >= 2 /\ ret.ran[1] < ret.ran[2]
    /\ Occupied(schedulerTasks, ret.ran[1]) /\ schedulerTasks[ret.ran[1]].runMe > 0

\* C16: schedulerUpdate calls no task and writes only the delay and the runMe of
\* occupied slots: the function, context and period of every slot, every field of
\* every free slot, the occupancy of the table and the error code stay as they were.
C16_TickWritesOnlyDelayAndRunMe ==
    [][Tick =>
          /\ \A i \in Slots :
                 /\ schedulerTasks'[i].pTask = schedulerTasks[i].pTask
                 /\ schedulerTasks'[i].context = schedulerTasks[i].context
                 /\ schedulerTasks'[i].period = schedulerTasks[i].period
                 /\ Occupied(schedulerTasks', i) <=> Occupied(schedulerTasks, i)
                 /\ ~Occupied(schedulerTasks, i) => schedulerTasks'[i] = schedulerTasks[i]
          /\ errorCode' = errorCode
          /\ ret'.ran = ret.ran /\ ret'.val = 0]_vars

\* A tick has run over a table with a task whose runMe it raised and reloaded, a free
\* slot that holds a non-zero delay, and an error code that is set.
C16_Witness ==
    /\ ret.fn = "schedulerUpdate"
    /\ errorCode # 0
    /\ \E i \in Slots : /\ Occupied(schedulerTasks, i) /\ schedulerTasks[i].runMe > 0
                         /\ schedulerTasks[i].period # 0
                         /\ schedulerTasks[i].delay = schedulerTasks[i].period
    /\ \E j \in Slots : ~Occupied(schedulerTasks, j) /\ schedulerTasks[j].delay # 0

\* C17 (as claimed): for a one-shot slot whose delay has reached zero and which has
\* not been dispatched yet, every further tick leaves the delay at zero and raises
\* runMe by one again.
C17_SpentOneShotAccumulates ==
    [][Tick =>
          \A i \in Slots :
              (/\ Occupied(schedulerTasks, i)
               /\ schedulerTasks[i].period = 0
               /\ schedulerTasks[i].delay = 0
               /\ schedulerTasks[i].runMe > 0) =>
                  /\ schedulerTasks'[i].delay = 0
                  /\ schedulerTasks'[i].runMe = schedulerTasks[i].runMe + 1]_vars

\* C19 (as claimed): every slot without a callable has delay = 0, period = 0,
\* runMe = 0 and no context.
C19_FreeSlotsAreZero ==
    \A i \in Slots : ~Occupied(schedulerTasks, i) => AllZero(schedulerTasks[i])

\* the last step was the dispatch loop calling the task of slot i
Invoked(i) == ret.fn = "schedulerDispatchTasks" /\ ret.arg = i /\ ret.val = 1

\* C15: with the dispatcher called again and again, every occupied slot whose runMe
\* is > 0 is eventually called by the dispatch loop or freed by a delete.
C15_DueTaskIsEventuallyServed ==
    \A i \in Slots :
        (Occupied(schedulerTasks, i) /\ schedulerTasks[i].runMe > 0)
            ~> (Invoked(i) \/ ~Occupied(schedulerTasks, i))

\* The main context parked while a task that became due during the pass waits, and
\* the tick that woke it has raised the backlog of that task once more.
C15_Witness ==
    /\ ret.fn = "schedulerUpdate" /\ di = 0
    /\ \E i \in Slots : Occupied(schedulerTasks, i) /\ schedulerTasks[i].runMe > MaxRunMe

\* C12 (as claimed): the decrement of the dispatch loop is only ever applied to a
\* runMe that is > 0 at that moment, whatever registry calls the task that was
\* called has made, so that no runMe wraps below zero.
C12_DecrementOnlyWhenPending ==
    [][LoopDecrement => schedulerTasks[di].runMe > 0]_vars

\* C20 (as claimed): in every reachable state a slot whose runMe is > 0 is occupied,
\* and the dispatch loop never calls an absent function.
C20_DueSlotIsOccupied ==
    /\ \A i \in Slots : schedulerTasks[i].runMe > 0 => Occupied(schedulerTasks, i)
    /\ mc.pc # "fault"

\* C13 (as claimed): for a periodic task no firing is lost or duplicated under any
\* interleaving of the tick with the dispatch loop: whenever the main context is
\* between two loop iterations or calls, the raises of runMe by the tick equal the
\* calls of the task plus the runMe of the slot.
C13_NoFiringLostOrDuplicated ==
    \A i \in Slots :
        (mc.pc = "main" /\ Occupied(schedulerTasks, i) /\ schedulerTasks[i].period # 0) =>
            obs.owed[i] = schedulerTasks[i].runMe

\* table t after n ticks
RECURSIVE TicksN(_, _)
TicksN(t, n) == IF n = 0 THEN t ELSE TicksN(schedulerUpdate(t), n - 1)

\* the tables that the schedulerAddTask under way gives when each of the k ticks
\* that arrived during it runs entirely before or entirely after it
AddSerial ==
    {TicksN(schedulerAddTask(TicksN(obs.snap, a), errorCode, mc.task.pTask, mc.task.context,
                             mc.task.delay, mc.task.period).tasks, obs.k - a) :
        a \in 0 .. obs.k}

\* the same for the schedulerDeleteTask under way
DeleteSerial ==
    {TicksN(schedulerDeleteTask(TicksN(obs.snap, a), errorCode, mc.i).tasks, obs.k - a) :
        a \in 0 .. obs.k}

\* C14 (as claimed): registry calls are atomic with respect to the tick: the table a
\* call leaves is the one obtained with every tick that arrived during the call run
\* entirely before or entirely after it.
C14_RegistryCallsAtomicToTick ==
    [][/\ (IsrAddWrite /\ mc.pc = "add_runMe") => schedulerTasks' \in AddSerial
       /\ (IsrMemsetRest /\ mc.n = 0) => schedulerTasks' \in DeleteSerial]_vars


\* C18 (the steps of one call): schedulerReportStatus leaves the task table alone;
\* for an error code that differs from the last one reported it writes
\* 255 - code to the port, remembers the code and, the code being non-zero, arms
\* the countdown; for an unchanged code it takes one from a running countdown;
\* and it changes the error code, to 0, exactly in the call that brings the
\* countdown to zero.
C18_ReportSteps ==
    [][RepStatus =>
        /\ schedulerTasks' = schedulerTasks
        /\ errorCode # lastErrorCode =>
              /\ errorPort' = 255 - errorCode
              /\ lastErrorCode' = errorCode
              /\ errorCode # 0 => errorTickCount' = ReportTicks
        /\ (errorCode = lastErrorCode /\ errorTickCount > 0) =>
              errorTickCount' = errorTickCount - 1
        /\ (errorCode' # errorCode) <=>
              (errorCode = lastErrorCode /\ errorTickCount = 1)
        /\ errorCode' # errorCode => errorCode' = 0]_vars

\* C18: a latched error is eventually cleared if no new error occurs.  The calls
\* that follow one another without a new error all find the code unchanged, so
\* the code is cleared by them if and only if the countdown is running: every
\* call of schedulerReportStatus that leaves an error code latched leaves its
\* countdown running.
C18_LatchedErrorIsCleared ==
    [][RepStatus => (errorCode' # 0 => errorTickCount' > 0)]_vars

\* an error was displayed and cleared by the countdown
C18_Witness ==
    /\ mc.pc = "main" /\ di = SCHEDULER_MAX_TASKS
    /\ errorCode = 0 /\ lastErrorCode # 0 /\ errorTickCount = 0

====
